---- MODULE Spec2Model ----
(***************************************************************************)
(* Model of ccp_log_parser.py: the CCPLogParser object (its four result    *)
(* collections), parse_log_file with its per-entry error handling, the     *)
(* report emitters and the main() driver.                                  *)
(*                                                                         *)
(* JSON values are records [t, s, n, h]:                                   *)
(*   t  the Python type after json.load ("str", "int", "float", "bool",    *)
(*      "null", "list"), "datetime" for a parsed timestamp, or "absent"    *)
(*      for a key that the dict does not have;                             *)
(*   s  the text of a string, as a sequence of atoms (an atom is a run of  *)
(*      characters that the model never splits);                           *)
(*   n, h  the number n + h * 10^400 (h # 0 only for an int that is too    *)
(*      large to convert to a float); floats are exact, NaN and the        *)
(*      infinities are left out.                                           *)
(***************************************************************************)
EXTENDS Integers, Sequences, FiniteSets, TLC

\* Longest input array.
MaxLen == 2
\* Most calls of parse_log_file on one parser object.
MaxRuns == 2
\* Most parser objects constructed on the same file.
MaxParsers == 2

\* str(entry)[:200]
PreviewLen == 200
\* print_sample_logs(3) in main
SampleCount == 3

Keys == {"time", "level", "component", "text", "line",
         "serverTimestamp", "clientTimestamp", "agentSnapshot"}
\* The order in which str(dict) lists the keys.
KeyOrder == <<"time", "level", "component", "text", "line",
              "serverTimestamp", "clientTimestamp", "agentSnapshot">>

Absent == [t |-> "absent", s |-> <<>>, n |-> 0, h |-> 0]
None == [t |-> "null", s |-> <<>>, n |-> 0, h |-> 0]
PyStr(atoms) == [t |-> "str", s |-> atoms, n |-> 0, h |-> 0]
PyInt(k) == [t |-> "int", s |-> <<>>, n |-> k, h |-> 0]
PyBigInt(k) == [t |-> "int", s |-> <<>>, n |-> k, h |-> 1]
PyFloat(k) == [t |-> "float", s |-> <<>>, n |-> k, h |-> 0]
PyBool(b) == [t |-> "bool", s |-> <<>>, n |-> IF b THEN 1 ELSE 0, h |-> 0]
\* The list [1] * k.
PyList(k) == [t |-> "list", s |-> <<>>, n |-> k, h |-> 0]
PyDateTime(atoms) == [t |-> "datetime", s |-> atoms, n |-> 0, h |-> 0]

\* bool(v)
Truthy(v) ==
    CASE v.t \in {"absent", "null"} -> FALSE
      [] v.t = "str" -> v.s # <<>>
      [] v.t \in {"int", "float", "bool"} -> v.n # 0 \/ v.h # 0
      [] v.t = "list" -> v.n # 0
      [] OTHER -> TRUE

\* type(v).__name__
TypeName(v) ==
    CASE v.t = "null" -> "NoneType"
      [] OTHER -> v.t

RECURSIVE Concat(_)
\* "".join(seqs)
Concat(seqs) ==
    IF seqs = <<>> THEN <<>> ELSE Head(seqs) \o Concat(Tail(seqs))

\* pat in s
Contains(s, pat) ==
    \E i \in 1..(Len(s) - Len(pat) + 1) : SubSeq(s, i, i + Len(pat) - 1) = pat

LowerAtom(a) ==
    CASE a \in {"Snapshot", "SNAPSHOT"} -> "snapshot"
      [] a = "Agent" -> "agent"
      [] a = "INFO" -> "info"
      [] a = "WARN" -> "warn"
      [] a = "Z" -> "z"
      [] OTHER -> a

\* s.lower()
Lower(s) == [i \in 1..Len(s) |-> LowerAtom(s[i])]

\* s.replace(old, new), for an atom old
Replace(s, old, new) == [i \in 1..Len(s) |-> IF s[i] = old THEN new ELSE s[i]]

\* s[:k]
Take(s, k) == SubSeq(s, 1, IF Len(s) < k THEN Len(s) ELSE k)

\* The atoms of a dict key.
KeyAtoms(k) == IF k = "agentSnapshot" THEN <<"agent", "Snapshot">> ELSE <<k>>

\* repr(v) of a JSON value that is not a dict.
Repr(v) ==
    CASE v.t = "str" -> <<"'">> \o v.s \o <<"'">>
      [] v.t = "int" -> IF v.h = 0 THEN <<ToString(v.n)>> ELSE <<"1e400+", ToString(v.n)>>
      [] v.t = "float" -> <<ToString(v.n), ".0">>
      [] v.t = "bool" -> IF v.n = 1 THEN <<"True">> ELSE <<"False">>
      [] v.t = "null" -> <<"None">>
      [] v.t = "list" -> <<"[">> \o Concat([i \in 1..v.n |-> <<"1">>]) \o <<"]">>
      [] OTHER -> <<>>

\* An element of the input array: a dict d (every key of Keys, Absent when
\* the dict lacks it) or another JSON value v.
DictEntry(f) ==
    [isdict |-> TRUE,
     d |-> [k \in Keys |-> IF k \in DOMAIN f THEN f[k] ELSE Absent],
     v |-> Absent]
ValueEntry(val) == [isdict |-> FALSE, d |-> [k \in Keys |-> Absent], v |-> val]

\* key in d
Has(d, k) == d[k] # Absent
\* d.get(k, default)
Get(d, k, default) == IF Has(d, k) THEN d[k] ELSE default

\* str(entry): for a dict, each present key with its value, every item
\* followed by the separator.
StrOf(entry) ==
    IF entry.isdict
    THEN <<"{">> \o
         Concat([i \in 1..Len(KeyOrder) |->
                    IF Has(entry.d, KeyOrder[i])
                    THEN <<"'">> \o KeyAtoms(KeyOrder[i]) \o <<"'", ": ">>
                         \o Repr(entry.d[KeyOrder[i]]) \o <<", ">>
                    ELSE <<>>])
         \o <<"}">>
    ELSE IF entry.v.t = "str" THEN entry.v.s ELSE Repr(entry.v)

\* datetime.fromisoformat(s): a date-time atom, optionally followed by a UTC
\* offset; anything else raises ValueError.
IsoDateTimes == {"2025-01-01T12:00:00.000", "2025-01-01T12:00:01.000"}
fromisoformat(s) ==
    IF Len(s) = 1 /\ s[1] \in IsoDateTimes
    THEN [exc |-> "none", val |-> PyDateTime(s)]
    ELSE IF Len(s) = 2 /\ s[1] \in IsoDateTimes /\ s[2] = "+00:00"
    THEN [exc |-> "none", val |-> PyDateTime(s)]
    ELSE [exc |-> "ValueError", val |-> None]

\* One record of parse_errors: the keys index and reason, and data or
\* timestamp (Absent when the record lacks the key).
ErrorRecord(idx, reason, data, timestamp) ==
    [index |-> idx, reason |-> reason, data |-> data, timestamp |-> timestamp]

\* ParseTimestamp, except that a failure is not recorded.
ParseTimestampSilent(parse_errors, idx, timestamp_str) ==
    IF Truthy(timestamp_str) /\ timestamp_str.t = "str"
       /\ fromisoformat(Replace(timestamp_str.s, "Z", "+00:00")).exc = "none"
    THEN [timestamp |-> fromisoformat(Replace(timestamp_str.s, "Z", "+00:00")).val,
          parse_errors |-> parse_errors]
    ELSE [timestamp |-> None, parse_errors |-> parse_errors]

\* ParseTimestamp, without the test of timestamp_str: an empty or missing
\* time is parsed too, and fails.
ParseTimestampUnguarded(parse_errors, idx, timestamp_str) ==
    IF timestamp_str.t = "str"
       /\ fromisoformat(Replace(timestamp_str.s, "Z", "+00:00")).exc = "none"
    THEN [timestamp |-> fromisoformat(Replace(timestamp_str.s, "Z", "+00:00")).val,
          parse_errors |-> parse_errors]
    ELSE [timestamp |-> None,
          parse_errors |-> Append(parse_errors,
              ErrorRecord(idx, <<"Invalid timestamp: ">>, Absent, timestamp_str))]

\* The timestamp block of parse_log_file: timestamp is None unless
\* timestamp_str is truthy and parses; a failure (also .replace on a value
\* that is not a string) appends an error record and goes on.
ParseTimestamp(parse_errors, idx, timestamp_str) ==
    IF ~Truthy(timestamp_str)
    THEN [timestamp |-> None, parse_errors |-> parse_errors]
    ELSE IF timestamp_str.t # "str"
    THEN [timestamp |-> None,
          parse_errors |-> Append(parse_errors,
              ErrorRecord(idx,
                  <<"Invalid timestamp: ", "'", TypeName(timestamp_str),
                    "' object has no attribute '", "replace", "'">>,
                  Absent, timestamp_str))]
    ELSE LET r == fromisoformat(Replace(timestamp_str.s, "Z", "+00:00"))
         IN  IF r.exc = "none"
             THEN [timestamp |-> r.val, parse_errors |-> parse_errors]
             ELSE [timestamp |-> None,
                   parse_errors |-> Append(parse_errors,
                       ErrorRecord(idx,
                           <<"Invalid timestamp: ", "Invalid isoformat string: ", "'">>
                               \o Replace(timestamp_str.s, "Z", "+00:00") \o <<"'">>,
                           Absent, timestamp_str))]

IsInt(v) == v.t \in {"int", "bool"}
IsNumber(v) == v.t \in {"int", "bool", "float"}

\* Sub, with the operands exchanged.
SubReversed(client_ts, server_ts) ==
    IF IsInt(client_ts) /\ IsInt(server_ts)
    THEN [exc |-> "none",
          val |-> [t |-> "int", s |-> <<>>, n |-> server_ts.n - client_ts.n,
                   h |-> server_ts.h - client_ts.h]]
    ELSE IF IsNumber(client_ts) /\ IsNumber(server_ts)
    THEN IF client_ts.h # 0 \/ server_ts.h # 0
         THEN [exc |-> "OverflowError", val |-> None]
         ELSE [exc |-> "none", val |-> PyFloat(server_ts.n - client_ts.n)]
    ELSE [exc |-> "TypeError", val |-> None]

\* client_ts - server_ts: exact on ints, OverflowError when an int too large
\* for a float meets a float, TypeError on anything that is not a number.
Sub(client_ts, server_ts) ==
    IF IsInt(client_ts) /\ IsInt(server_ts)
    THEN [exc |-> "none",
          val |-> [t |-> "int", s |-> <<>>, n |-> client_ts.n - server_ts.n,
                   h |-> client_ts.h - server_ts.h]]
    ELSE IF IsNumber(client_ts) /\ IsNumber(server_ts)
    THEN IF client_ts.h # 0 \/ server_ts.h # 0
         THEN [exc |-> "OverflowError", val |-> None]
         ELSE [exc |-> "none", val |-> PyFloat(client_ts.n - server_ts.n)]
    ELSE [exc |-> "TypeError", val |-> None]

\* _extract_skew_metric(log_entry): exc is the exception that leaves the
\* method ("none" when it returns).
extract_skew_metric(skew_metrics, log_entry) ==
    LET data == log_entry.data
        server_ts == Get(data, "serverTimestamp", None)
        client_ts == Get(data, "clientTimestamp", None)
        skew == Sub(client_ts, server_ts)
    IN  IF Truthy(server_ts) /\ Truthy(client_ts)
        THEN IF skew.exc = "none"
             THEN [exc |-> "none",
                   skew_metrics |-> Append(skew_metrics,
                       [timestamp |-> log_entry.timestamp,
                        timestamp_str |-> log_entry.timestamp_str,
                        skew_ms |-> skew.val,
                        client_timestamp |-> client_ts,
                        server_timestamp |-> server_ts])]
             ELSE IF skew.exc \in {"ValueError", "TypeError"}
             THEN [exc |-> "none", skew_metrics |-> skew_metrics]
             ELSE [exc |-> skew.exc, skew_metrics |-> skew_metrics]
        ELSE [exc |-> "none", skew_metrics |-> skew_metrics]

\* IsSnapshot, except that text is matched without .lower().
IsSnapshotCaseSensitive(text, entry) ==
    IF text.t # "str"
    THEN [exc |-> "AttributeError", val |-> FALSE]
    ELSE [exc |-> "none",
          val |-> Contains(text.s, <<"snapshot">>)
                  \/ Contains(StrOf(entry), <<"agent", "Snapshot">>)]

\* 'snapshot' in text.lower() or 'agentSnapshot' in str(entry); text.lower()
\* raises AttributeError when text is not a string.
IsSnapshot(text, entry) ==
    IF text.t # "str"
    THEN [exc |-> "AttributeError", val |-> FALSE]
    ELSE [exc |-> "none",
          val |-> Contains(Lower(text.s), <<"snapshot">>)
                  \/ Contains(StrOf(entry), <<"agent", "Snapshot">>)]

\* str(e) of an exception caught by the entry-level handler.
ExcMessage(exc, text) ==
    CASE exc = "AttributeError" ->
             <<"'", TypeName(text), "' object has no attribute '", "lower", "'">>
      [] exc = "OverflowError" -> <<"int too large to convert to float">>
      [] OTHER -> <<exc>>

\* LogEntry, except that line_number defaults to the 1-based position.
LogEntryOneBased(entry, idx, timestamp, timestamp_str) ==
    [timestamp |-> timestamp,
     timestamp_str |-> timestamp_str,
     level |-> Get(entry.d, "level", PyStr(<<"UNKNOWN">>)),
     component |-> Get(entry.d, "component", PyStr(<<>>)),
     text |-> Get(entry.d, "text", PyStr(<<>>)),
     data |-> entry.d,
     line_number |-> Get(entry.d, "line", PyInt(idx + 1)),
     index |-> idx]

\* The log_entry record that parse_log_file builds.
LogEntry(entry, idx, timestamp, timestamp_str) ==
    [timestamp |-> timestamp,
     timestamp_str |-> timestamp_str,
     level |-> Get(entry.d, "level", PyStr(<<"UNKNOWN">>)),
     component |-> Get(entry.d, "component", PyStr(<<>>)),
     text |-> Get(entry.d, "text", PyStr(<<>>)),
     data |-> entry.d,
     line_number |-> Get(entry.d, "line", PyInt(idx)),
     index |-> idx]

\* The body of the loop of parse_log_file for one element: self is the
\* record of the parser's four collections.
ProcessEntry(self, idx, entry) ==
    IF ~entry.isdict
    THEN [self EXCEPT !.parse_errors = Append(@,
             ErrorRecord(idx,
                 <<"Entry is not a dictionary: ", "<class '", TypeName(entry.v), "'>">>,
                 PyStr(Take(StrOf(entry), PreviewLen)), Absent))]
    ELSE LET timestamp_str == Get(entry.d, "time", PyStr(<<>>))
             ts == ParseTimestamp(self.parse_errors, idx, timestamp_str)
             log_entry == LogEntry(entry, idx, ts.timestamp, timestamp_str)
             appended == [self EXCEPT !.parse_errors = ts.parse_errors,
                                      !.logs = Append(@, log_entry)]
             skew == IF Has(entry.d, "serverTimestamp") /\ Has(entry.d, "clientTimestamp")
                     THEN extract_skew_metric(self.skew_metrics, log_entry)
                     ELSE [exc |-> "none", skew_metrics |-> self.skew_metrics]
             skewed == [appended EXCEPT !.skew_metrics = skew.skew_metrics]
             snap == IsSnapshot(log_entry.text, entry)
             handler(st, exc) ==
                 [st EXCEPT !.parse_errors = Append(@,
                     ErrorRecord(idx, ExcMessage(exc, log_entry.text),
                         PyStr(Take(StrOf(entry), PreviewLen)), Absent))]
         IN  IF skew.exc # "none" THEN handler(skewed, skew.exc)
             ELSE IF snap.exc # "none" THEN handler(skewed, snap.exc)
             ELSE IF snap.val
             THEN [skewed EXCEPT !.snapshots = Append(@, log_entry)]
             ELSE skewed

RECURSIVE LoopAbort(_, _, _)
\* Loop, except that the first element that adds an error record ends the
\* loop.
LoopAbort(self, log_data, idx) ==
    IF idx >= Len(log_data) THEN self
    ELSE LET after == ProcessEntry(self, idx, log_data[idx + 1])
         IN  IF Len(after.parse_errors) > Len(self.parse_errors) THEN after
             ELSE LoopAbort(after, log_data, idx + 1)

RECURSIVE Loop(_, _, _)
\* for idx, entry in enumerate(log_data), from position idx on.
Loop(self, log_data, idx) ==
    IF idx >= Len(log_data) THEN self
    ELSE Loop(ProcessEntry(self, idx, log_data[idx + 1]), log_data, idx + 1)

\* The content of the file at log_file_path: unreadable, text that is not
\* JSON, or a JSON document whose top-level value has type top; items are
\* the elements that iterating over that value yields (the elements of a
\* list, the keys of a dict, the characters of a string).
Unreadable == [readable |-> FALSE, valid |-> FALSE, top |-> "none", items |-> <<>>]
InvalidJson == [readable |-> TRUE, valid |-> FALSE, top |-> "none", items |-> <<>>]
Document(top, items) == [readable |-> TRUE, valid |-> TRUE, top |-> top, items |-> items]

\* IsList, except that the type of the top-level value is not tested.
IsListUnchecked(doc) == doc.valid

\* isinstance(log_data, list)
IsList(doc) == doc.top = "list"

NoReport == [kind |-> "none", total |-> 0, parsed |-> 0, errors |-> 0]
Fatal(kind) == [kind |-> kind, total |-> 0, parsed |-> 0, errors |-> 0]

\* parse_log_file(): the parser's collections after the call, and what the
\* call printed (the parsing summary or the fatal error).
parse_log_file(self, f) ==
    IF ~f.readable THEN [self |-> self, report |-> Fatal("read_error")]
    ELSE IF ~f.valid THEN [self |-> self, report |-> Fatal("invalid_json")]
    ELSE IF ~IsList(f) THEN [self |-> self, report |-> Fatal("not_array")]
    ELSE LET done == Loop(self, f.items, 0)
         IN  [self |-> done,
              report |-> [kind |-> "summary", total |-> Len(f.items),
                          parsed |-> Len(done.logs),
                          errors |-> Len(done.parse_errors)]]

\* log['text'][:100] in print_sample_logs raises TypeError on a text that
\* cannot be sliced; only the first count records are printed.
print_sample_logs(the_logs, count) ==
    IF \E i \in 1..Len(the_logs) :
           i <= count /\ the_logs[i].text.t \notin {"str", "list"}
    THEN "TypeError" ELSE "none"

ReadableFile == "ccp_logs_readable.txt"
HtmlFile == "ccp_logs_viewer.html"
SkewOverTimeFile == "skew_over_time.png"
SkewDistributionFile == "skew_distribution.png"

\* generate_readable_output(), except that the records written are taken
\* off logs.
generate_readable_output_draining(self, files) ==
    [self |-> [self EXCEPT !.logs = <<>>], files |-> files \cup {ReadableFile}]

\* generate_readable_output(): the parser and the files on disk after the
\* call; the lists are only read.
generate_readable_output(self, files) ==
    [self |-> self, files |-> files \cup {ReadableFile}]

\* generate_html_output(): the parser and the files on disk after the
\* call; the lists are only read.
generate_html_output(self, files) ==
    [self |-> self, files |-> files \cup {HtmlFile}]

\* generate_skew_metrics_report(), without the test of skew_metrics.
generate_skew_metrics_report_unguarded(self, files) ==
    [self |-> self, result |-> "plotted",
     files |-> files \cup {SkewOverTimeFile, SkewDistributionFile}]

\* generate_skew_metrics_report(): returns at once on empty skew_metrics;
\* the statistics (sum / len, the :.2f formats) raise OverflowError on an
\* int skew too large for a float; then the two plots are saved.
generate_skew_metrics_report(self, files) ==
    IF self.skew_metrics = <<>>
    THEN [self |-> self, result |-> "no_skew_metrics", files |-> files]
    ELSE IF \E i \in 1..Len(self.skew_metrics) : self.skew_metrics[i].skew_ms.h # 0
    THEN [self |-> self, result |-> "OverflowError", files |-> files]
    ELSE [self |-> self, result |-> "plotted",
          files |-> files \cup {SkewOverTimeFile, SkewDistributionFile}]

\* The object before __init__ has run on it.
Blank == [logs |-> <<>>, skew_metrics |-> <<>>, snapshots |-> <<>>,
          parse_errors |-> <<>>]

\* __init__, except that the lists are not replaced by new ones (lists
\* shared through the class).
init_shared(self) == self

\* __init__: every collection starts as a new empty list.
init(self) ==
    [self EXCEPT !.logs = <<>>, !.skew_metrics = <<>>, !.snapshots = <<>>,
                 !.parse_errors = <<>>]

(***************************************************************************)
(* The input files.                                                        *)
(***************************************************************************)
IsoZ == PyStr(<<"2025-01-01T12:00:00.000", "Z">>)
IsoNaive == PyStr(<<"2025-01-01T12:00:01.000">>)

DictEntries ==
    { DictEntry("time" :> IsoZ @@ "level" :> PyStr(<<"INFO">>)
                @@ "component" :> PyStr(<<"ccp">>) @@ "text" :> PyStr(<<"hi">>)
                @@ "line" :> PyInt(1)),
      DictEntry(<<>>),
      DictEntry("time" :> PyStr(<<"t">>) @@ "level" :> PyStr(<<"INFO">>)
                @@ "component" :> PyStr(<<"c">>) @@ "text" :> PyStr(<<"s">>)
                @@ "serverTimestamp" :> PyInt(1000)
                @@ "clientTimestamp" :> PyInt(1100) @@ "line" :> PyInt(1)),
      DictEntry("time" :> PyInt(5) @@ "serverTimestamp" :> PyInt(1000)
                @@ "agentSnapshot" :> None),
      DictEntry("time" :> PyInt(0) @@ "line" :> None
                @@ "serverTimestamp" :> PyInt(0)
                @@ "clientTimestamp" :> PyInt(1100)),
      DictEntry("time" :> IsoNaive @@ "level" :> PyStr(<<"WARN">>)
                @@ "text" :> PyStr(<<"Agent", " ", "Snapshot", " ", "captured">>)
                @@ "line" :> PyInt(2)),
      DictEntry("text" :> PyStr(<<"hi">>)
                @@ "component" :> PyStr(<<"agent", "Snapshot">>)
                @@ "serverTimestamp" :> PyStr(<<"s">>)
                @@ "clientTimestamp" :> PyInt(1100)),
      DictEntry("text" :> PyInt(5)
                @@ "component" :> PyStr(<<"agent", "Snapshot">>)),
      DictEntry("time" :> PyStr(<<"t">>) @@ "text" :> None),
      DictEntry("text" :> PyStr(<<"SNAPSHOT">>)
                @@ "serverTimestamp" :> PyInt(1100)
                @@ "clientTimestamp" :> PyInt(1000)),
      DictEntry("serverTimestamp" :> PyFloat(2) @@ "clientTimestamp" :> PyBigInt(0)
                @@ "text" :> PyStr(<<"snapshot">>)) }

OtherEntries ==
    { ValueEntry(PyInt(42)), ValueEntry(PyStr(<<"agent", "Snapshot">>)) }

Entries == DictEntries \cup OtherEntries

RECURSIVE SeqsUpTo(_, _)
\* The sequences over S of length at most k.
SeqsUpTo(S, k) ==
    IF k = 0 THEN {<<>>}
    ELSE LET shorter == SeqsUpTo(S, k - 1)
         IN  shorter \cup {Append(q, x) : q \in shorter, x \in S}

Files ==
    {Unreadable, InvalidJson,
     Document("dict", <<ValueEntry(PyStr(<<"a">>))>>),
     Document("str", <<ValueEntry(PyStr(<<"n">>)), ValueEntry(PyStr(<<"o">>))>>)}
    \cup {Document("list", q) : q \in SeqsUpTo(Entries, MaxLen)}

(***************************************************************************)
(* The state.                                                              *)
(***************************************************************************)
VARIABLES
    file,           \* the content of the file at log_file_path
    logs, skew_metrics, snapshots, parse_errors,    \* the parser's lists
    report,         \* what the last parse_log_file on this parser printed
    skew_report,    \* the outcome of the last generate_skew_metrics_report
    runs,           \* calls of parse_log_file on this parser so far
    parsers,        \* parser objects constructed so far
    first,          \* the collections after the first completed run
    outputs,        \* the output files on disk
    mpc             \* where main() is; "off" when the class is used directly

vars == <<file, logs, skew_metrics, snapshots, parse_errors, report, skew_report,
          runs, parsers, first, outputs, mpc>>

Self == [logs |-> logs, skew_metrics |-> skew_metrics, snapshots |-> snapshots,
         parse_errors |-> parse_errors]

SetSelf(self) ==
    /\ logs' = self.logs
    /\ skew_metrics' = self.skew_metrics
    /\ snapshots' = self.snapshots
    /\ parse_errors' = self.parse_errors

NoFirst == [set |-> FALSE, self |-> Blank]

Init ==
    /\ file \in Files
    /\ mpc \in {"off", "start"}
    /\ logs = init(Blank).logs
    /\ skew_metrics = init(Blank).skew_metrics
    /\ snapshots = init(Blank).snapshots
    /\ parse_errors = init(Blank).parse_errors
    /\ report = NoReport
    /\ skew_report = "none"
    /\ runs = 0
    /\ parsers = IF mpc = "off" THEN 1 ELSE 0
    /\ first = NoFirst
    /\ outputs = {}

\* CCPLogParser(log_file_path) on the same file again.
Construct ==
    /\ mpc = "off"
    /\ parsers < MaxParsers
    /\ SetSelf(init(Self))
    /\ report' = NoReport
    /\ runs' = 0
    /\ parsers' = parsers + 1
    /\ UNCHANGED <<file, skew_report, first, outputs, mpc>>

\* parser.parse_log_file()
Parse ==
    /\ mpc = "off"
    /\ runs < MaxRuns
    /\ LET r == parse_log_file(Self, file)
       IN  /\ SetSelf(r.self)
           /\ report' = r.report
           /\ first' = IF first.set THEN first ELSE [set |-> TRUE, self |-> r.self]
    /\ runs' = runs + 1
    /\ UNCHANGED <<file, skew_report, parsers, outputs, mpc>>

\* parser.generate_readable_output()
GenerateReadable ==
    /\ mpc = "off"
    /\ LET r == generate_readable_output(Self, outputs)
       IN  /\ SetSelf(r.self)
           /\ outputs' = r.files
    /\ UNCHANGED <<file, report, skew_report, runs, parsers, first, mpc>>

\* parser.generate_html_output()
GenerateHtml ==
    /\ mpc = "off"
    /\ LET r == generate_html_output(Self, outputs)
       IN  /\ SetSelf(r.self)
           /\ outputs' = r.files
    /\ UNCHANGED <<file, report, skew_report, runs, parsers, first, mpc>>

\* parser.generate_skew_metrics_report()
GenerateSkewReport ==
    /\ mpc = "off"
    /\ LET r == generate_skew_metrics_report(Self, outputs)
       IN  /\ SetSelf(r.self)
           /\ outputs' = r.files
           /\ skew_report' = r.result
    /\ UNCHANGED <<file, report, runs, parsers, first, mpc>>

\* main(): the directory holds no log file.
MainNoFiles ==
    /\ mpc = "start"
    /\ mpc' = "no_files"
    /\ UNCHANGED <<file, logs, skew_metrics, snapshots, parse_errors, report,
                   skew_report, runs, parsers, first, outputs>>

\* main(): the user quits the menu.
MainQuit ==
    /\ mpc = "start"
    /\ mpc' = "quit"
    /\ UNCHANGED <<file, logs, skew_metrics, snapshots, parse_errors, report,
                   skew_report, runs, parsers, first, outputs>>

\* main(): the user selects the file; the parser is constructed,
\* parse_log_file runs and, when logs is not empty, print_sample_logs(3).
MainParse ==
    /\ mpc = "start"
    /\ LET r == parse_log_file(init(Self), file)
           sample == IF r.self.logs # <<>>
                     THEN print_sample_logs(r.self.logs, SampleCount)
                     ELSE "none"
       IN  /\ SetSelf(r.self)
           /\ report' = r.report
           /\ first' = [set |-> TRUE, self |-> r.self]
           /\ mpc' = IF sample = "none" THEN "readable" ELSE "crashed"
    /\ runs' = 1
    /\ parsers' = 1
    /\ UNCHANGED <<file, skew_report, outputs>>

\* main(): parser.generate_readable_output()
MainReadable ==
    /\ mpc = "readable"
    /\ LET r == generate_readable_output(Self, outputs)
       IN  /\ SetSelf(r.self)
           /\ outputs' = r.files
    /\ mpc' = "html"
    /\ UNCHANGED <<file, report, skew_report, runs, parsers, first>>

\* main(): parser.generate_html_output(), then the test of
\* parser.skew_metrics.
MainHtml ==
    /\ mpc = "html"
    /\ LET r == generate_html_output(Self, outputs)
       IN  /\ SetSelf(r.self)
           /\ outputs' = r.files
           /\ mpc' = IF r.self.skew_metrics # <<>> THEN "skew" ELSE "done"
    /\ UNCHANGED <<file, report, skew_report, runs, parsers, first>>

\* main(): parser.generate_skew_metrics_report()
MainSkew ==
    /\ mpc = "skew"
    /\ LET r == generate_skew_metrics_report(Self, outputs)
       IN  /\ SetSelf(r.self)
           /\ outputs' = r.files
           /\ skew_report' = r.result
           /\ mpc' = IF r.result = "OverflowError" THEN "crashed" ELSE "done"
    /\ UNCHANGED <<file, report, runs, parsers, first>>

Next ==
    \/ Construct
    \/ Parse
    \/ GenerateReadable
    \/ GenerateHtml
    \/ GenerateSkewReport
    \/ MainNoFiles
    \/ MainQuit
    \/ MainParse
    \/ MainReadable
    \/ MainHtml
    \/ MainSkew

Spec == Init /\ [][Next]_vars

(***************************************************************************)
(* Properties.                                                             *)
(***************************************************************************)
Items == file.items
Indices == 0..(Len(Items) - 1)
IsArrayFile == file.readable /\ file.valid /\ file.top = "list"
\* One parse_log_file run on a fresh parser has completed.
FreshRunDone == runs = 1
FatalKinds == {"read_error", "invalid_json", "not_array"}

\* The positions of the error records of entry i that carry a data preview
\* (not-a-dict and catch-all records) or a raw timestamp.
DataErrors(i) ==
    {k \in 1..Len(parse_errors) :
        parse_errors[k].index = i /\ parse_errors[k].data # Absent}
TimestampErrors(i) ==
    {k \in 1..Len(parse_errors) :
        parse_errors[k].index = i /\ parse_errors[k].timestamp # Absent}
LogsOf(i) == {k \in 1..Len(logs) : logs[k].index = i}
SnapshotsOf(i) == {k \in 1..Len(snapshots) : snapshots[k].index = i}

\* C1: for an array whose elements are all objects, after one run on a
\* fresh parser, len(logs) plus the number of error records with a data
\* preview equals len(input), and no element is in both.
C1_EveryElementOnce ==
    (FreshRunDone /\ IsArrayFile /\ \A i \in Indices : Items[i + 1].isdict)
    => /\ Len(logs) + Cardinality(UNION {DataErrors(i) : i \in Indices})
              = Len(Items)
       /\ \A i \in Indices : ~(LogsOf(i) # {} /\ DataErrors(i) # {})

\* C2: an object entry on which the entry-level handler ran has one error
\* record with a preview of the entry, and logs holds no record of its
\* index.
C2_FailedEntrySkipped ==
    (FreshRunDone /\ IsArrayFile)
    => \A i \in Indices :
          (Items[i + 1].isdict /\ DataErrors(i) # {})
          => /\ Cardinality(DataErrors(i)) = 1
             /\ \A k \in DataErrors(i) :
                   parse_errors[k].data = PyStr(Take(StrOf(Items[i + 1]), PreviewLen))
             /\ LogsOf(i) = {}

\* C3: on an array, a run always gets to its summary, and every index of
\* the input has a record in logs or in parse_errors.
C3_EveryElementVisited ==
    (runs >= 1 /\ IsArrayFile)
    => /\ report.kind = "summary"
       /\ report.total = Len(Items)
       /\ \A i \in Indices :
             LogsOf(i) # {} \/ DataErrors(i) # {} \/ TimestampErrors(i) # {}

C3_Witness ==
    /\ FreshRunDone /\ IsArrayFile /\ Len(Items) = 2
    /\ ~Items[1].isdict
    /\ Items[2].isdict /\ DataErrors(1) # {} /\ TimestampErrors(1) # {}

\* C4: a file that cannot be read, is not JSON or is not an array leaves
\* the four collections of a fresh parser empty and reports a fatal error.
C4_FatalLeavesEmpty ==
    (FreshRunDone /\ ~IsArrayFile)
    => /\ logs = <<>> /\ skew_metrics = <<>>
       /\ snapshots = <<>> /\ parse_errors = <<>>
       /\ report.kind \in FatalKinds

C4_Witness ==
    FreshRunDone /\ file.valid /\ file.top = "dict" /\ report.kind = "not_array"

\* C5: after a fatal ingestion failure, main produces no output file.
C5_FatalNoOutput ==
    (mpc \notin {"off", "start"} /\ report.kind \in FatalKinds) => outputs = {}

\* The raw entry whose values a skew record carries.
SkewOwner(i, r) ==
    /\ Items[i].isdict
    /\ Items[i].d["serverTimestamp"] # Absent
    /\ Items[i].d["clientTimestamp"] # Absent
    /\ r.client_timestamp = Items[i].d["clientTimestamp"]
    /\ r.server_timestamp = Items[i].d["serverTimestamp"]

\* C6: every skew record has skew_ms = client_timestamp - server_timestamp
\* on the values of an entry that has both keys, and after one run the
\* records belong, in order, to distinct entries.
C6_SkewCorrect ==
    /\ \A k \in 1..Len(skew_metrics) :
          LET r == skew_metrics[k]
          IN  /\ r.skew_ms.n = r.client_timestamp.n - r.server_timestamp.n
              /\ r.skew_ms.h = r.client_timestamp.h - r.server_timestamp.h
              /\ \E i \in 1..Len(Items) : SkewOwner(i, r)
    /\ runs <= 1
       => \E f \in [1..Len(skew_metrics) -> 1..Len(Items)] :
             /\ \A k \in 1..Len(skew_metrics) : SkewOwner(f[k], skew_metrics[k])
             /\ \A j, k \in 1..Len(skew_metrics) : j < k => f[j] < f[k]

C6_Witness ==
    /\ FreshRunDone /\ Len(Items) = 2 /\ Len(skew_metrics) = 1
    /\ skew_metrics[1].skew_ms.n = 100
    /\ Items[1].isdict /\ Items[1].d["serverTimestamp"] # Absent
    /\ Items[1].d["clientTimestamp"] = Absent
    /\ SkewOwner(2, skew_metrics[1])

\* The time of a dict entry is truthy and does not parse.
BadTime(entry) ==
    /\ entry.isdict
    /\ Truthy(entry.d["time"])
    /\ \/ entry.d["time"].t # "str"
       \/ fromisoformat(Replace(entry.d["time"].s, "Z", "+00:00")).exc # "none"

\* C7: an object entry whose time does not parse has one error record with
\* its index and raw timestamp and no data preview, and its record is in
\* logs with timestamp None and the raw timestamp_str.
C7_BadTimestampKept ==
    (FreshRunDone /\ IsArrayFile)
    => \A i \in Indices :
          BadTime(Items[i + 1])
          => /\ Cardinality(TimestampErrors(i)) = 1
             /\ \A k \in TimestampErrors(i) :
                   /\ parse_errors[k].timestamp = Items[i + 1].d["time"]
                   /\ parse_errors[k].data = Absent
             /\ Cardinality(LogsOf(i)) = 1
             /\ \A k \in LogsOf(i) :
                   /\ logs[k].timestamp = None
                   /\ logs[k].timestamp_str = Items[i + 1].d["time"]

C7_Witness ==
    /\ FreshRunDone /\ IsArrayFile /\ Len(Items) = 2
    /\ BadTime(Items[1]) /\ Items[1].d["time"].t = "str"
    /\ BadTime(Items[2]) /\ Items[2].d["time"].t = "int"
    /\ Len(logs) = 2 /\ TimestampErrors(0) # {} /\ TimestampErrors(1) # {}

\* The snapshot condition on the raw entry: text is a string that contains
\* "snapshot" in any case, or str(entry) contains "agentSnapshot".
SnapshotCondition(entry) ==
    \/ /\ entry.d["text"].t = "str"
       /\ \E j \in 1..Len(entry.d["text"].s) :
             entry.d["text"].s[j] \in {"snapshot", "Snapshot", "SNAPSHOT"}
    \/ LET whole == StrOf(entry)
       IN  \E j \in 1..(Len(whole) - 1) :
              whole[j] = "agent" /\ whole[j + 1] = "Snapshot"

\* C8 as stated: an object entry is in snapshots exactly when the snapshot
\* condition holds of it.
C8_SnapshotIff ==
    (FreshRunDone /\ IsArrayFile)
    => \A i \in Indices :
          Items[i + 1].isdict
          => (SnapshotsOf(i) # {} <=> SnapshotCondition(Items[i + 1]))

\* C8 amended: an object entry on which no exception reached the
\* entry-level handler is in snapshots, once, exactly when the snapshot
\* condition holds of it; an entry on which one did is not in snapshots.
C8_SnapshotIffNoException ==
    (FreshRunDone /\ IsArrayFile)
    => \A i \in Indices :
          Items[i + 1].isdict
          => /\ DataErrors(i) = {}
                => /\ SnapshotsOf(i) # {} <=> SnapshotCondition(Items[i + 1])
                   /\ Cardinality(SnapshotsOf(i)) <= 1
                   /\ \A k \in SnapshotsOf(i) : snapshots[k] \in {logs[j] : j \in LogsOf(i)}
             /\ DataErrors(i) # {} => SnapshotsOf(i) = {}

C8_Witness ==
    /\ FreshRunDone /\ IsArrayFile /\ Len(Items) = 2
    /\ Items[1].isdict /\ Items[1].d["text"] = PyStr(<<"SNAPSHOT">>)
    /\ Len(skew_metrics) = 1 /\ SnapshotsOf(0) # {}
    /\ Items[2].isdict /\ SnapshotCondition(Items[2]) /\ DataErrors(1) # {}
    /\ SnapshotsOf(1) = {}

\* C9: after one run on a fresh parser, every record of logs has the index
\* of its entry in the input, the indices increase strictly, and
\* line_number is the entry's line, or the index when it has none.
C9_OrderKept ==
    FreshRunDone
    => \A k \in 1..Len(logs) :
          LET i == logs[k].index
          IN  /\ i \in Indices
              /\ Items[i + 1].isdict
              /\ logs[k].data = Items[i + 1].d
              /\ logs[k].line_number =
                     IF Items[i + 1].d["line"] # Absent
                     THEN Items[i + 1].d["line"] ELSE PyInt(i)
              /\ k > 1 => logs[k - 1].index < i

C9_Witness ==
    /\ FreshRunDone /\ Len(Items) = 2 /\ Len(logs) = 2
    /\ logs[1].line_number = PyInt(1) /\ Items[1].d["line"] = PyInt(1)
    /\ logs[2].line_number = PyInt(1) /\ Items[2].d["line"] = Absent

TextNotString(entry) ==
    entry.isdict /\ entry.d["text"] # Absent /\ entry.d["text"].t # "str"

NumberTypes == {"int", "bool", "float"}

\* Both skew keys are present with truthy values.
SkewValuesTruthy(entry) ==
    /\ entry.isdict
    /\ entry.d["serverTimestamp"] # Absent /\ entry.d["clientTimestamp"] # Absent
    /\ Truthy(entry.d["serverTimestamp"]) /\ Truthy(entry.d["clientTimestamp"])

\* The subtraction of the two truthy skew values raises TypeError (a value
\* is not a number).
SkewTypeMismatch(entry) ==
    /\ SkewValuesTruthy(entry)
    /\ \/ entry.d["serverTimestamp"].t \notin NumberTypes
       \/ entry.d["clientTimestamp"].t \notin NumberTypes

\* The subtraction of the two truthy skew values raises OverflowError (a
\* float and an int too large for a float).
SkewOverflow(entry) ==
    /\ SkewValuesTruthy(entry)
    /\ entry.d["serverTimestamp"].t \in NumberTypes
    /\ entry.d["clientTimestamp"].t \in NumberTypes
    /\ "float" \in {entry.d["serverTimestamp"].t, entry.d["clientTimestamp"].t}
    /\ entry.d["serverTimestamp"].h # 0 \/ entry.d["clientTimestamp"].h # 0

\* C11 as stated: parse_errors holds at most one record per index, one for
\* an entry that fails and none for an entry that does not.
C11_OneErrorPerEntry ==
    (FreshRunDone /\ IsArrayFile)
    => \A i \in Indices :
          LET e == Items[i + 1]
              fails == ~e.isdict \/ BadTime(e) \/ TextNotString(e) \/ SkewOverflow(e)
          IN  Cardinality(DataErrors(i) \cup TimestampErrors(i))
                  = IF fails THEN 1 ELSE 0

\* C11 amended: per index there is at most one record with a raw timestamp
\* and at most one with a data preview; an entry that is not a dict has
\* the second only, a dict entry has the first exactly when its time does
\* not parse and the second exactly when another exception is raised.
C11_OneErrorPerFailure ==
    (FreshRunDone /\ IsArrayFile)
    => /\ \A k \in 1..Len(parse_errors) : parse_errors[k].index \in Indices
       /\ \A i \in Indices :
             LET e == Items[i + 1]
             IN  /\ DataErrors(i) \cap TimestampErrors(i) = {}
                 /\ Cardinality(TimestampErrors(i))
                        = IF BadTime(e) THEN 1 ELSE 0
                 /\ Cardinality(DataErrors(i))
                        = IF ~e.isdict \/ TextNotString(e) \/ SkewOverflow(e)
                          THEN 1 ELSE 0

C11_Witness ==
    /\ FreshRunDone /\ IsArrayFile /\ Len(Items) = 2
    /\ BadTime(Items[1]) /\ TextNotString(Items[1])
    /\ Cardinality(DataErrors(0)) = 1 /\ Cardinality(TimestampErrors(0)) = 1
    /\ Items[2].isdict /\ ~BadTime(Items[2]) /\ Items[2].d["time"] = Absent
    /\ DataErrors(1) \cup TimestampErrors(1) = {}

\* The number of elements of the input on which P holds.
CountItems(P(_)) == Cardinality({i \in 1..Len(Items) : P(Items[i])})

\* The skew subtraction of the entry is not carried out or fails.
SkewFalsyOrFails(entry) ==
    /\ entry.isdict
    /\ entry.d["serverTimestamp"] # Absent /\ entry.d["clientTimestamp"] # Absent
    /\ \/ ~SkewValuesTruthy(entry)
       \/ SkewTypeMismatch(entry)
       \/ SkewOverflow(entry)

\* An entry that adds a record to skew_metrics.
SkewMeasured(entry) ==
    SkewValuesTruthy(entry) /\ ~SkewTypeMismatch(entry) /\ ~SkewOverflow(entry)

\* C12: an entry with both skew keys whose values are falsy or whose
\* subtraction fails adds no skew record and no error record (none at all
\* when its time and text are in order), and its record is in logs.
C12_SkewBestEffort ==
    (FreshRunDone /\ IsArrayFile)
    => /\ Len(skew_metrics) = CountItems(SkewMeasured)
       /\ \A i \in Indices :
             SkewFalsyOrFails(Items[i + 1])
             => /\ Cardinality(LogsOf(i)) = 1
                /\ DataErrors(i) # {} => TextNotString(Items[i + 1])
                /\ TimestampErrors(i) # {} => BadTime(Items[i + 1])

\* A well-formed object: text is a string or missing, time is missing or a
\* valid ISO-8601 string.
WellFormed(entry) ==
    /\ entry.isdict
    /\ entry.d["text"] = Absent \/ entry.d["text"].t = "str"
    /\ \/ entry.d["time"] = Absent
       \/ /\ entry.d["time"].t = "str"
          /\ fromisoformat(Replace(entry.d["time"].s, "Z", "+00:00")).exc = "none"

\* The value of a key of the entry, or the default for a missing key.
FieldOr(entry, k, default) ==
    IF entry.d[k] = Absent THEN default ELSE entry.d[k]

\* C13: an array of n well-formed objects gives n records in logs with the
\* entry's level, component and text (or the defaults), no error record,
\* and the summary total = n, parsed = len(logs), errors = len(parse_errors).
C13_WellFormedAllParsed ==
    (FreshRunDone /\ IsArrayFile /\ \A i \in 1..Len(Items) : WellFormed(Items[i]))
    => /\ Len(logs) = Len(Items)
       /\ parse_errors = <<>>
       /\ \A k \in 1..Len(logs) :
             /\ logs[k].level = FieldOr(Items[k], "level", PyStr(<<"UNKNOWN">>))
             /\ logs[k].component = FieldOr(Items[k], "component", PyStr(<<>>))
             /\ logs[k].text = FieldOr(Items[k], "text", PyStr(<<>>))
       /\ report = [kind |-> "summary", total |-> Len(Items),
                    parsed |-> Len(logs), errors |-> Len(parse_errors)]

\* A step that is a call of an emitter on a parser that has parsed: no
\* parser is constructed and parse_log_file does not run.
EmitterStep == runs >= 1 /\ runs' = runs /\ parsers' = parsers

\* C14: once parse_log_file has completed, every call of an emitter leaves
\* logs, skew_metrics, snapshots and parse_errors as they were.
C14_EmittersReadOnly ==
    [][EmitterStep => UNCHANGED <<logs, skew_metrics, snapshots, parse_errors>>]_vars

C14_Witness ==
    /\ mpc = "off" /\ runs >= 1
    /\ outputs = {ReadableFile, HtmlFile, SkewOverTimeFile, SkewDistributionFile}
    /\ logs # <<>> /\ skew_metrics # <<>> /\ snapshots # <<>>
    /\ parse_errors # <<>>

PlotFiles == {SkewOverTimeFile, SkewDistributionFile}

\* C15: a step taken with empty skew_metrics writes no plot, and when it
\* is a call of generate_skew_metrics_report it ends with the warning and
\* no error; main gets to that call only with skew_metrics not empty.
C15_PlotsOnlyWithSkew ==
    [][/\ (skew_metrics = <<>> /\ runs' = runs /\ parsers' = parsers)
          => /\ outputs' \cap PlotFiles = outputs \cap PlotFiles
             /\ skew_report' # skew_report => skew_report' = "no_skew_metrics"
       /\ mpc' = "skew" => skew_metrics' # <<>>
       /\ (mpc = "skew" /\ mpc' # mpc) => skew_metrics # <<>>]_vars

C15_Witness ==
    /\ mpc = "off" /\ runs >= 1 /\ logs # <<>> /\ skew_metrics = <<>>
    /\ skew_report = "no_skew_metrics" /\ outputs \cap PlotFiles = {}

====
